---- MODULE Spec2Model ----
(***************************************************************************)
(* A model of room/analyze_scan.py: the batch pipeline that loads the      *)
(* vertices of an OBJ scan, computes the room frame, segments the cloud    *)
(* into 11 named regions, derives the measurements, samples horizontal     *)
(* slices and region members, and writes one JSON document.                *)
(*                                                                         *)
(* Coordinates are exact decimals on a grid of 1/UnitsPerMm millimetre     *)
(* (the source holds them as float64 metres): a length of n millimetres    *)
(* is Mm(n) grid units, and int(d * 1000) is the truncation of d grid      *)
(* units to whole millimetres.  Binary floating-point rounding is not      *)
(* modelled, but for the length of np.arange, which it decides whenever    *)
(* the span is a whole number of steps.  The axis histograms of lines 370-389 write only their own    *)
(* keys of detailed_data and are not modelled here.                        *)
(***************************************************************************)
EXTENDS Integers, Sequences, FiniteSets, TLC

VARIABLES
    file,          \* the lines of room/scans/room.obj
    pc,            \* the statement main() is about to run
    err,           \* the exception that ended the run, "none" while it runs
    failed_at,     \* the stage whose statement raised it
    vertices,      \* main's vertices array, a sequence of <<x, y, z>>
    room,          \* the six frame values and result["room"]
    regions,       \* result["regions"]
    measurements,  \* result["measurements"]
    xz_density_map,    \* detailed["xz_density_map_10cm_grid"]
    horizontal_slices, \* detailed["horizontal_slices"]
    indices,       \* per region name, the indices np.linspace produced
    written        \* room/scan_analysis.json: <<>> until json.dump ran

vars == <<file, pc, err, failed_at, vertices, room, regions, measurements,
          xz_density_map, horizontal_slices, indices, written>>

(***************************************************************************)
(* Bounds of the model.                                                    *)
(***************************************************************************)
UnitsPerMm == 2

MaxLines == 4

MaxBulkLines == 2

MaxRep == 55

Mm(n) == n * UnitsPerMm

(***************************************************************************)
(* Arithmetic helpers.                                                     *)
(***************************************************************************)
abs(d) == IF d >= 0 THEN d ELSE -d

\* int(d * 1000) for a length of d grid units: truncation toward zero.
int_mm(d) ==
    IF d >= 0 THEN d \div UnitsPerMm ELSE -((-d) \div UnitsPerMm)

\* int((n / q) * 1000) for the rational n / q grid units, q > 0.
int_mm_frac(n, q) ==
    IF n >= 0 THEN n \div (q * UnitsPerMm) ELSE -((-n) \div (q * UnitsPerMm))

RECURSIVE isqrt_between(_, _, _)
isqrt_between(n, lo, hi) ==
    IF hi - lo <= 1 THEN lo
    ELSE LET mid == (lo + hi) \div 2
         IN  IF mid * mid <= n THEN isqrt_between(n, mid, hi)
                               ELSE isqrt_between(n, lo, mid)

\* floor(sqrt(n)) for 0 <= n < 2^30.
isqrt(n) == isqrt_between(n, 0, 32768)

\* The sum of vs[lo..hi][axis], by halves.
RECURSIVE SumAxis(_, _, _, _)
SumAxis(vs, axis, lo, hi) ==
    IF lo > hi THEN 0
    ELSE IF lo = hi THEN vs[lo][axis]
    ELSE LET mid == (lo + hi) \div 2
         IN  SumAxis(vs, axis, lo, mid) + SumAxis(vs, axis, mid + 1, hi)

Column(vs, axis) == {vs[k][axis] : k \in 1..Len(vs)}

\* A mutant of axis_min: the reduction picks the other extreme.
axis_min_is_max(vs, axis) ==
    CHOOSE m \in Column(vs, axis) : \A c \in Column(vs, axis) : m >= c

\* vertices[:, axis].min()
axis_min(vs, axis) ==
    CHOOSE m \in Column(vs, axis) : \A c \in Column(vs, axis) : m <= c

\* vertices[:, axis].max()
axis_max(vs, axis) ==
    CHOOSE m \in Column(vs, axis) : \A c \in Column(vs, axis) : m >= c

\* vertices[:, axis].mean(), kept as the exact fraction sum / count.
axis_mean(vs, axis) == [num |-> SumAxis(vs, axis, 1, Len(vs)), den |-> Len(vs)]

(***************************************************************************)
(* The input: lines of an OBJ file.  A line is its first token (marker)    *)
(* and the tokens after it; a token is numeric text with its value, or     *)
(* text float() rejects.                                                   *)
(***************************************************************************)
Num(v) == [num |-> TRUE, val |-> v]

Txt == [num |-> FALSE, val |-> 0]

VLine(x, y, z) == [marker |-> "v", fields |-> <<Num(x), Num(y), Num(z)>>]

\* The scan points the inputs are drawn from, in millimetres; some lie one
\* grid unit off a whole millimetre.
Palette ==
    << VLine(Mm(-1000), Mm(-1000), Mm(-1500)),         \* low left front corner
       VLine(Mm(-850) - 1, Mm(0), Mm(-950)),           \* left speaker body
       VLine(Mm(-800), Mm(0), Mm(-950)),               \* left speaker body
       VLine(Mm(-700), Mm(-700), Mm(-1000)),           \* left shelf
       VLine(Mm(-700), Mm(500), Mm(-1250)),            \* left rack
       VLine(Mm(600), Mm(0), Mm(-950) + 1),            \* right speaker body
       VLine(Mm(600), Mm(-700), Mm(-1100) - 1),        \* right shelf
       VLine(Mm(600), Mm(500), Mm(-1250) - 1),         \* right rack
       VLine(Mm(1000), Mm(-500) - 1, Mm(1000)),        \* sofa seat
       [marker |-> "v",                                \* high right back corner,
        fields |-> <<Num(Mm(1000)), Num(Mm(1400)),     \* with a fourth field
                     Num(Mm(1500)), Num(1)>>],
       [marker |-> "vn", fields |-> <<Num(0), Num(1), Num(0)>>],  \* not "v "
       [marker |-> "v", fields |-> <<Num(Mm(100)), Txt, Num(0)>>], \* non-numeric
       [marker |-> "v", fields |-> <<Num(Mm(100)), Num(0)>>] >>    \* two fields

\* The lines the long inputs are drawn from.
BulkPalette == <<Palette[1], Palette[5], Palette[9], Palette[10],
                 Palette[11], Palette[12], Palette[13]>>

\* The non-decreasing index sequences of length n over 1..k.
RECURSIVE Ascending(_, _)
Ascending(k, n) ==
    IF n = 0 THEN {<<>>}
    ELSE UNION {{Append(s, i) : i \in (IF s = <<>> THEN 1 ELSE s[Len(s)])..k} :
                s \in Ascending(k, n - 1)}

Reverse(s) == [k \in 1..Len(s) |-> s[Len(s) + 1 - k]]

\* The lines pal[s[1]], pal[s[2]], ...
Pick(pal, s) == [k \in 1..Len(s) |-> pal[s[k]]]

\* base written out rep times over.
Repeat(base, rep) ==
    [k \in 1..(Len(base) * rep) |-> base[((k - 1) % Len(base)) + 1]]

\* Short files: up to MaxLines palette lines, in palette order or reversed.
Files ==
    LET picks == UNION {Ascending(Len(Palette), n) : n \in 0..MaxLines}
    IN  {Pick(Palette, s) : s \in picks} \cup {Reverse(Pick(Palette, s)) : s \in picks}

\* Long files: up to MaxBulkLines lines of BulkPalette, written out up to
\* MaxRep times over.
BulkFiles ==
    LET picks == UNION {Ascending(Len(BulkPalette), n) : n \in 1..MaxBulkLines}
        bases == {Pick(BulkPalette, s) : s \in picks}
                     \cup {Reverse(Pick(BulkPalette, s)) : s \in picks}
    IN  {Repeat(b, rep) : b \in bases, rep \in 1..MaxRep}

(***************************************************************************)
(* load_obj_vertices                                                       *)
(***************************************************************************)
\* line.startswith("v ")
starts_with_v(line) == line.marker = "v"

\* The exception [float(parts[1]), float(parts[2]), float(parts[3])] raises,
\* evaluated left to right: IndexError at a missing part, ValueError at text
\* float() rejects.
float_error(fields) ==
    LET bad(k) == Len(fields) < k \/ ~fields[k].num
    IN  IF \A k \in 1..3 : ~bad(k) THEN "none"
        ELSE LET k == CHOOSE j \in 1..3 : bad(j) /\ \A i \in 1..(j - 1) : ~bad(i)
             IN  IF Len(fields) < k THEN "IndexError" ELSE "ValueError"

\* The vertex lines float() rejects, by position.
rejected(lines) ==
    {k \in 1..Len(lines) :
        starts_with_v(lines[k]) /\ float_error(lines[k].fields) # "none"}

\* The loop over the lines: it stops at the first vertex line float()
\* rejects, with that line's exception; otherwise it returns a row for every
\* vertex line, in file order.
load_obj_vertices(lines) ==
    IF rejected(lines) # {}
    THEN LET k == CHOOSE j \in rejected(lines) : \A i \in rejected(lines) : j <= i
         IN  [err |-> float_error(lines[k].fields), vertices |-> <<>>]
    ELSE LET vlines == SelectSeq(lines, starts_with_v)
         IN  [err |-> "none",
              vertices |-> [k \in 1..Len(vlines) |->
                               <<vlines[k].fields[1].val, vlines[k].fields[2].val,
                                 vlines[k].fields[3].val>>]]

(***************************************************************************)
(* main: the room frame (基準値) and result["room"].                       *)
(***************************************************************************)
\* A mutant of empty_array_error: the reduction's own complaint about a
\* zero-size array.
empty_array_error_of_min == "ValueError"

\* np.array([]) has one dimension, so vertices[:, 1] raises IndexError.
empty_array_error == "IndexError"

NoRoom == [computed |-> FALSE]

room_frame(vs) ==
    LET floor_y   == axis_min(vs, 2)
        ceiling_y == axis_max(vs, 2)
        front_z   == axis_min(vs, 3)
        back_z    == axis_max(vs, 3)
        left_x    == axis_min(vs, 1)
        right_x   == axis_max(vs, 1)
    IN  [computed |-> TRUE,
         floor_y |-> floor_y, ceiling_y |-> ceiling_y,
         front_z |-> front_z, back_z |-> back_z,
         left_x |-> left_x, right_x |-> right_x,
         total_vertices |-> Len(vs),
         dimensions_mm |-> [width_x  |-> int_mm(right_x - left_x),
                            height_y |-> int_mm(ceiling_y - floor_y),
                            depth_z  |-> int_mm(back_z - front_z)]]

(***************************************************************************)
(* The run.                                                                *)
(***************************************************************************)
Start(f) ==
    /\ file = f
    /\ pc = "load"
    /\ err = "none"
    /\ failed_at = "none"
    /\ vertices = <<>>
    /\ room = NoRoom
    /\ regions = <<>>
    /\ measurements = <<>>
    /\ xz_density_map = <<>>
    /\ horizontal_slices = <<>>
    /\ indices = <<>>
    /\ written = <<>>

Init == \E f \in Files : Start(f)

InitBulk == \E f \in BulkFiles : Start(f)

Raise(kind) ==
    /\ err' = kind
    /\ failed_at' = pc
    /\ pc' = "failed"

\* vertices = load_obj_vertices(obj_path)
Load ==
    /\ pc = "load"
    /\ LET r == load_obj_vertices(file)
       IN  IF r.err # "none"
           THEN /\ Raise(r.err)
                /\ UNCHANGED vertices
           ELSE /\ vertices' = r.vertices
                /\ pc' = "frame"
                /\ UNCHANGED <<err, failed_at>>
    /\ UNCHANGED <<file, room, regions, measurements, xz_density_map,
                   horizontal_slices, indices, written>>

\* floor_y ... right_x and the result dict up to "regions": []
Frame ==
    /\ pc = "frame"
    /\ IF Len(vertices) = 0
       THEN /\ Raise(empty_array_error)
            /\ UNCHANGED room
       ELSE /\ room' = room_frame(vertices)
            /\ pc' = "segment"
            /\ UNCHANGED <<err, failed_at>>
    /\ UNCHANGED <<file, vertices, regions, measurements, xz_density_map,
                   horizontal_slices, indices, written>>

(***************************************************************************)
(* main: the region predicates (領域別に分析).  Every literal of the        *)
(* predicates is a field of the configuration the masks read, so that a    *)
(* predicate can be evaluated with one literal changed.                    *)
(***************************************************************************)
Cfg ==
    [ front_depth     |-> Mm(500),   \* z < front_z + 0.5
      back_depth      |-> Mm(500),   \* z > back_z - 0.5
      shelf_height    |-> Mm(600),   \* shelf_top_y = floor_y + 0.6
      speaker_height  |-> Mm(580),
      speaker_width   |-> Mm(380),
      speaker_depth   |-> Mm(270),
      baffle_offset   |-> Mm(280),   \* baffle_z = front_z + 0.28
      left_clearance  |-> Mm(110),   \* left_spk_x_inner = left_x + 0.11
      right_clearance |-> Mm(150),   \* right_spk_x_outer = right_x - 0.15
      shelf_z         |-> Mm(100),   \* z < baffle_z + speaker_depth + 0.1
      shelf_x_near    |-> Mm(50),    \* x > inner - 0.05, x < outer + 0.05
      shelf_x_far     |-> Mm(100),   \* x < outer + 0.1, x > inner - 0.1
      spk_z_lo        |-> Mm(20),    \* z > baffle_z - 0.02
      spk_z_hi        |-> Mm(20),    \* z < baffle_z + speaker_depth + 0.02
      spk_x_lo        |-> Mm(20),    \* x > inner - 0.02
      spk_x_hi        |-> Mm(20),    \* x < outer + 0.02
      spk_y_lo        |-> Mm(20),    \* y > shelf_top_y - 0.02
      spk_y_hi        |-> Mm(20),    \* y < speaker_top_y + 0.02
      rack_z          |-> Mm(20),    \* z < baffle_z - 0.02
      rack_x_near     |-> Mm(50),    \* x > inner - 0.05, x < outer + 0.05
      rack_x_far      |-> Mm(100),   \* x < outer + 0.1, x > inner - 0.1
      rack_y_top      |-> Mm(300),   \* y < ceiling_y - 0.3
      sofa_z          |-> Mm(500),   \* z > 0.5
      sofa_y_lo       |-> Mm(200),   \* y > floor_y + 0.2
      sofa_y_hi       |-> Mm(700),   \* y < floor_y + 0.7
      floor_band      |-> Mm(100),   \* y < floor_y + 0.1
      ceiling_band    |-> Mm(100) ]  \* y > ceiling_y - 0.1

shelf_top_y(f, m) == f.floor_y + m.shelf_height

speaker_top_y(f, m) == shelf_top_y(f, m) + m.speaker_height

baffle_z(f, m) == f.front_z + m.baffle_offset

left_spk_x_inner(f, m) == f.left_x + m.left_clearance

left_spk_x_outer(f, m) == left_spk_x_inner(f, m) + m.speaker_width

right_spk_x_outer(f, m) == f.right_x - m.right_clearance

right_spk_x_inner(f, m) == right_spk_x_outer(f, m) - m.speaker_width

\* A mutant of front_area_mask: the band is open at the wall as well.
front_area_mask_off_wall(v, f, m) ==
    v[3] > f.front_z /\ v[3] < f.front_z + m.front_depth

front_area_mask(v, f, m) == v[3] < f.front_z + m.front_depth

back_area_mask(v, f, m) == v[3] > f.back_z - m.back_depth

\* A mutant of left_shelf_mask: the inner margin is added, not subtracted.
left_shelf_mask_margin_added(v, f, m) ==
    /\ v[3] < baffle_z(f, m) + m.speaker_depth + m.shelf_z
    /\ v[1] > left_spk_x_inner(f, m) + m.shelf_x_near
    /\ v[1] < left_spk_x_outer(f, m) + m.shelf_x_far
    /\ v[2] > f.floor_y
    /\ v[2] < shelf_top_y(f, m)

left_shelf_mask(v, f, m) ==
    /\ v[3] < baffle_z(f, m) + m.speaker_depth + m.shelf_z
    /\ v[1] > left_spk_x_inner(f, m) - m.shelf_x_near
    /\ v[1] < left_spk_x_outer(f, m) + m.shelf_x_far
    /\ v[2] > f.floor_y
    /\ v[2] < shelf_top_y(f, m)

right_shelf_mask(v, f, m) ==
    /\ v[3] < baffle_z(f, m) + m.speaker_depth + m.shelf_z
    /\ v[1] > right_spk_x_inner(f, m) - m.shelf_x_far
    /\ v[1] < right_spk_x_outer(f, m) + m.shelf_x_near
    /\ v[2] > f.floor_y
    /\ v[2] < shelf_top_y(f, m)

left_speaker_mask(v, f, m) ==
    /\ v[3] > baffle_z(f, m) - m.spk_z_lo
    /\ v[3] < baffle_z(f, m) + m.speaker_depth + m.spk_z_hi
    /\ v[1] > left_spk_x_inner(f, m) - m.spk_x_lo
    /\ v[1] < left_spk_x_outer(f, m) + m.spk_x_hi
    /\ v[2] > shelf_top_y(f, m) - m.spk_y_lo
    /\ v[2] < speaker_top_y(f, m) + m.spk_y_hi

right_speaker_mask(v, f, m) ==
    /\ v[3] > baffle_z(f, m) - m.spk_z_lo
    /\ v[3] < baffle_z(f, m) + m.speaker_depth + m.spk_z_hi
    /\ v[1] > right_spk_x_inner(f, m) - m.spk_x_lo
    /\ v[1] < right_spk_x_outer(f, m) + m.spk_x_hi
    /\ v[2] > shelf_top_y(f, m) - m.spk_y_lo
    /\ v[2] < speaker_top_y(f, m) + m.spk_y_hi

left_rack_mask(v, f, m) ==
    /\ v[3] < baffle_z(f, m) - m.rack_z
    /\ v[1] > left_spk_x_inner(f, m) - m.rack_x_near
    /\ v[1] < left_spk_x_outer(f, m) + m.rack_x_far
    /\ v[2] > shelf_top_y(f, m)
    /\ v[2] < f.ceiling_y - m.rack_y_top

right_rack_mask(v, f, m) ==
    /\ v[3] < baffle_z(f, m) - m.rack_z
    /\ v[1] > right_spk_x_inner(f, m) - m.rack_x_far
    /\ v[1] < right_spk_x_outer(f, m) + m.rack_x_near
    /\ v[2] > shelf_top_y(f, m)
    /\ v[2] < f.ceiling_y - m.rack_y_top

sofa_mask(v, f, m) ==
    /\ v[3] > m.sofa_z
    /\ v[2] > f.floor_y + m.sofa_y_lo
    /\ v[2] < f.floor_y + m.sofa_y_hi

floor_mask(v, f, m) == v[2] < f.floor_y + m.floor_band

ceiling_mask(v, f, m) == v[2] > f.ceiling_y - m.ceiling_band

\* The mask main() builds for the region it appends under this name.
region_mask(name, v, f, m) ==
    CASE name = "front_wall_area" -> front_area_mask(v, f, m)
      [] name = "back_wall_area"  -> back_area_mask(v, f, m)
      [] name = "left_shelf"      -> left_shelf_mask(v, f, m)
      [] name = "right_shelf"     -> right_shelf_mask(v, f, m)
      [] name = "left_speaker"    -> left_speaker_mask(v, f, m)
      [] name = "right_speaker"   -> right_speaker_mask(v, f, m)
      [] name = "left_rack"       -> left_rack_mask(v, f, m)
      [] name = "right_rack"      -> right_rack_mask(v, f, m)
      [] name = "sofa_estimated"  -> sofa_mask(v, f, m)
      [] name = "floor"           -> floor_mask(v, f, m)
      [] name = "ceiling"         -> ceiling_mask(v, f, m)

\* vertices[mask]
masked(vs, name, f, m) == SelectSeq(vs, LAMBDA v : region_mask(name, v, f, m))

(***************************************************************************)
(* analyze_region                                                          *)
(***************************************************************************)
\* int(len(vertices))
region_count(vs) == Len(vs)

region_bounds(vs) ==
    [x_min_m |-> axis_min(vs, 1), x_max_m |-> axis_max(vs, 1),
     y_min_m |-> axis_min(vs, 2), y_max_m |-> axis_max(vs, 2),
     z_min_m |-> axis_min(vs, 3), z_max_m |-> axis_max(vs, 3)]

\* A mutant of analyze_region: the empty case falls through to the
\* statistics with an empty box.
analyze_region_stub_with_size(vs, name) ==
    IF Len(vs) = 0
    THEN [name |-> name, vertex_count |-> 0,
          size |-> [x_mm |-> 0, y_mm |-> 0, z_mm |-> 0]]
    ELSE [name |-> name,
          vertex_count |-> region_count(vs),
          centroid |-> [x_m |-> axis_mean(vs, 1), y_m |-> axis_mean(vs, 2),
                        z_m |-> axis_mean(vs, 3)],
          bounds |-> region_bounds(vs),
          size |-> [x_mm |-> int_mm(axis_max(vs, 1) - axis_min(vs, 1)),
                    y_mm |-> int_mm(axis_max(vs, 2) - axis_min(vs, 2)),
                    z_mm |-> int_mm(axis_max(vs, 3) - axis_min(vs, 3))]]

analyze_region(vs, name) ==
    IF Len(vs) = 0
    THEN [name |-> name, vertex_count |-> 0]
    ELSE [name |-> name,
          vertex_count |-> region_count(vs),
          centroid |-> [x_m |-> axis_mean(vs, 1), y_m |-> axis_mean(vs, 2),
                        z_m |-> axis_mean(vs, 3)],
          bounds |-> region_bounds(vs),
          size |-> [x_mm |-> int_mm(axis_max(vs, 1) - axis_min(vs, 1)),
                    y_mm |-> int_mm(axis_max(vs, 2) - axis_min(vs, 2)),
                    z_mm |-> int_mm(axis_max(vs, 3) - axis_min(vs, 3))]]

\* A mutant of append_region: a region without points is not appended.
append_region_if_any(regs, vs, name) ==
    IF Len(vs) = 0 THEN regs ELSE Append(regs, analyze_region(vs, name))

\* result["regions"].append(analyze_region(..., name))
append_region(regs, vs, name) == Append(regs, analyze_region(vs, name))

\* The eleven appends of main(), in statement order.
segment(vs, f) ==
    LET r1  == append_region(<<>>, masked(vs, "front_wall_area", f, Cfg), "front_wall_area")
        r2  == append_region(r1, masked(vs, "back_wall_area", f, Cfg), "back_wall_area")
        r3  == append_region(r2, masked(vs, "left_shelf", f, Cfg), "left_shelf")
        r4  == append_region(r3, masked(vs, "right_shelf", f, Cfg), "right_shelf")
        r5  == append_region(r4, masked(vs, "left_speaker", f, Cfg), "left_speaker")
        r6  == append_region(r5, masked(vs, "right_speaker", f, Cfg), "right_speaker")
        r7  == append_region(r6, masked(vs, "left_rack", f, Cfg), "left_rack")
        r8  == append_region(r7, masked(vs, "right_rack", f, Cfg), "right_rack")
        r9  == append_region(r8, masked(vs, "sofa_estimated", f, Cfg), "sofa_estimated")
        r10 == append_region(r9, masked(vs, "floor", f, Cfg), "floor")
    IN  append_region(r10, masked(vs, "ceiling", f, Cfg), "ceiling")

\* Lines 127-249: the eleven regions.
Segment ==
    /\ pc = "segment"
    /\ regions' = segment(vertices, room)
    /\ pc' = "measure"
    /\ UNCHANGED <<file, err, failed_at, vertices, room, measurements,
                   xz_density_map, horizontal_slices, indices, written>>

(***************************************************************************)
(* main: the measurements (測定値の計算).                                   *)
(***************************************************************************)
None == [none |-> TRUE]

\* next((r for r in result["regions"] if r["name"] == name), None)
region_named(regs, name) ==
    IF \E i \in 1..Len(regs) : regs[i].name = name
    THEN regs[CHOOSE i \in 1..Len(regs) :
                  regs[i].name = name /\ \A j \in 1..(i - 1) : regs[j].name # name]
    ELSE None

\* data and data["vertex_count"] > 0
has_points(data) == data # None /\ data.vertex_count > 0

NoKeys == [k \in {} |-> 0]

\* The dict d with d[key] = value when cond holds, d otherwise.
put_if(cond, d, key, value) == IF cond THEN (key :> value) @@ d ELSE d

left_speaker_entry(lb, f) ==
    [from_left_wall_mm  |-> int_mm(abs(lb.x_min_m - f.left_x)),
     baffle_z_m         |-> lb.z_max_m,
     from_front_wall_mm |-> int_mm(abs(lb.z_min_m - f.front_z)),
     tweeter_height_mm  |-> int_mm(lb.y_max_m - f.floor_y),
     bottom_height_mm   |-> int_mm(lb.y_min_m - f.floor_y),
     width_mm           |-> int_mm(lb.x_max_m - lb.x_min_m),
     depth_mm           |-> int_mm(lb.z_max_m - lb.z_min_m)]

right_speaker_entry(rb, f) ==
    [from_right_wall_mm |-> int_mm(abs(f.right_x - rb.x_max_m)),
     baffle_z_m         |-> rb.z_max_m,
     from_front_wall_mm |-> int_mm(abs(rb.z_min_m - f.front_z)),
     tweeter_height_mm  |-> int_mm(rb.y_max_m - f.floor_y),
     bottom_height_mm   |-> int_mm(rb.y_min_m - f.floor_y),
     width_mm           |-> int_mm(rb.x_max_m - rb.x_min_m),
     depth_mm           |-> int_mm(rb.z_max_m - rb.z_min_m)]

\* A mutant of speaker_distance_mm: the signed gap, without abs().
speaker_distance_mm_signed(lb, rb) == int_mm(rb.x_min_m - lb.x_max_m)

\* int(abs(rb["x_min_m"] - lb["x_max_m"]) * 1000)
speaker_distance_mm(lb, rb) == int_mm(abs(rb.x_min_m - lb.x_max_m))

\* int(abs(right centroid x - left centroid x) * 1000)
speaker_center_distance_mm(lc, rc) ==
    int_mm_frac(abs(rc.x_m.num * lc.x_m.den - lc.x_m.num * rc.x_m.den),
                rc.x_m.den * lc.x_m.den)

shelf_entry(b, f) ==
    [height_mm |-> int_mm(b.y_max_m - f.floor_y),
     depth_mm  |-> int_mm(b.z_max_m - b.z_min_m)]

rack_entry(b, f) ==
    [depth_mm      |-> int_mm(abs(b.z_max_m - f.front_z)),
     top_height_mm |-> int_mm(b.y_max_m - f.floor_y)]

\* A centroid coordinate on the grid (rounded down to a grid unit).
on_grid(c) == c.num \div c.den

\* int(np.sqrt((sc.x - spk_center_x)**2 + (sc.z - spk_center_z)**2) * 1000);
\* the three centroids enter on the grid, the midpoint in half grid units.
from_speaker_center_mm(sc, lc, rc) ==
    LET dx == 2 * on_grid(sc.x_m) - (on_grid(lc.x_m) + on_grid(rc.x_m))
        dz == 2 * on_grid(sc.z_m) - (on_grid(lc.z_m) + on_grid(rc.z_m))
    IN  isqrt(dx * dx + dz * dz) \div (2 * UnitsPerMm)

\* left_spk_data and right_spk_data and both vertex_count > 0
both_speakers(l, r) == has_points(l) /\ has_points(r)

listening_point_entry(sofa_data, l, r, f) ==
    LET sc == sofa_data.centroid
        base == [from_front_wall_mm |->
                     int_mm_frac(abs(sc.z_m.num - f.front_z * sc.z_m.den), sc.z_m.den),
                 seat_height_mm |->
                     int_mm_frac(sc.y_m.num - f.floor_y * sc.y_m.den, sc.y_m.den),
                 ear_height_estimated_mm |->
                     int_mm_frac(sc.y_m.num - f.floor_y * sc.y_m.den
                                     + Mm(450) * sc.y_m.den, sc.y_m.den)]
    IN  IF both_speakers(l, r)
        THEN ("from_speaker_center_mm" :>
                  from_speaker_center_mm(sc, l.centroid, r.centroid)) @@ base
        ELSE base

\* A mutant of sofa_guard: the listening point needs a speaker as well.
sofa_guard_needs_speaker(sofa_data, l, r) == has_points(sofa_data) /\ has_points(l)

\* if sofa_data and sofa_data["vertex_count"] > 0
sofa_guard(sofa_data, l, r) == has_points(sofa_data)

\* Lines 252-338: the measurements dict.
measure(regs, f) ==
    LET left_spk_data    == region_named(regs, "left_speaker")
        right_spk_data   == region_named(regs, "right_speaker")
        left_shelf_data  == region_named(regs, "left_shelf")
        right_shelf_data == region_named(regs, "right_shelf")
        left_rack_data   == region_named(regs, "left_rack")
        right_rack_data  == region_named(regs, "right_rack")
        sofa_data        == region_named(regs, "sofa_estimated")
        m1 == put_if(has_points(left_spk_data), NoKeys, "left_speaker",
                     left_speaker_entry(left_spk_data.bounds, f))
        m2 == put_if(has_points(right_spk_data), m1, "right_speaker",
                     right_speaker_entry(right_spk_data.bounds, f))
        m3 == put_if(both_speakers(left_spk_data, right_spk_data), m2,
                     "speaker_distance_mm",
                     speaker_distance_mm(left_spk_data.bounds, right_spk_data.bounds))
        m4 == put_if(both_speakers(left_spk_data, right_spk_data), m3,
                     "speaker_center_distance_mm",
                     speaker_center_distance_mm(left_spk_data.centroid,
                                                right_spk_data.centroid))
        m5 == put_if(has_points(left_shelf_data), m4, "left_shelf",
                     shelf_entry(left_shelf_data.bounds, f))
        m6 == put_if(has_points(right_shelf_data), m5, "right_shelf",
                     shelf_entry(right_shelf_data.bounds, f))
        m7 == put_if(has_points(left_rack_data), m6, "left_rack",
                     rack_entry(left_rack_data.bounds, f))
        m8 == put_if(has_points(right_rack_data), m7, "right_rack",
                     rack_entry(right_rack_data.bounds, f))
    IN  put_if(sofa_guard(sofa_data, left_spk_data, right_spk_data), m8,
               "listening_point",
               listening_point_entry(sofa_data, left_spk_data, right_spk_data, f))

Measure ==
    /\ pc = "measure"
    /\ measurements' = measure(regions, room)
    /\ pc' = "density"
    /\ UNCHANGED <<file, err, failed_at, vertices, room, regions,
                   xz_density_map, horizontal_slices, indices, written>>

(***************************************************************************)
(* main: the density map of the XZ plane (XZ平面の密度マップ).              *)
(***************************************************************************)
grid_size == Mm(100)

\* len(np.arange(start, stop, step)) is ceil((stop - start) / step), taken
\* in float64.  When the span is a whole number q of steps the rounded
\* quotient lies at q or just beside it, so the length is q or q + 1 (for
\* arange(0, 0.6, 0.1) it is 6, for arange(1.0, 1.1, 0.1) it is 2).
arange_lengths(start, stop, step) ==
    IF (stop - start) % step = 0
    THEN {(stop - start) \div step, (stop - start) \div step + 1}
    ELSE {(stop - start) \div step + 1}

\* The values of np.arange(start, stop, step) of that length.
arange(start, len, step) == [i \in 1..len |-> start + (i - 1) * step]

\* The i with bins[i] <= c < bins[i + 1], 0 when there is none.
bin_of(c, bins) ==
    IF \E i \in 1..(Len(bins) - 1) : bins[i] <= c /\ c < bins[i + 1]
    THEN CHOOSE i \in 1..(Len(bins) - 1) : bins[i] <= c /\ c < bins[i + 1]
    ELSE 0

\* mask of cell (i, j), for one row
cell_mask(v, x_bins, z_bins, i, j) ==
    /\ v[1] >= x_bins[i] /\ v[1] < x_bins[i + 1]
    /\ v[3] >= z_bins[j] /\ v[3] < z_bins[j + 1]

\* mask.sum()
cell_count(vs, x_bins, z_bins, i, j) ==
    Cardinality({k \in 1..Len(vs) : cell_mask(vs[k], x_bins, z_bins, i, j)})

\* The cells (i, j) of the double loop whose count is positive: the cells
\* some row falls in.
counted_cells(vs, x_bins, z_bins) ==
    {c \in {<<bin_of(vs[k][1], x_bins), bin_of(vs[k][3], z_bins)>> : k \in 1..Len(vs)} :
        c[1] > 0 /\ c[2] > 0}

\* Cell a is visited before cell b: i is the outer loop, j the inner one.
visited_before(a, b) == a[1] < b[1] \/ (a[1] = b[1] /\ a[2] < b[2])

\* density_map after the double loop: an entry for every cell with a
\* positive count, in the order the loop visits the cells.
density_map(vs, x_bins, z_bins) ==
    LET cells == counted_cells(vs, x_bins, z_bins)
        nth(n) == CHOOSE c \in cells :
                      Cardinality({d \in cells : visited_before(d, c)}) = n - 1
    IN  [n \in 1..Cardinality(cells) |->
            LET i == nth(n)[1]
                j == nth(n)[2]
            IN  [x_m   |-> (x_bins[i] + x_bins[i + 1]) \div 2,
                 z_m   |-> (z_bins[j] + z_bins[j + 1]) \div 2,
                 count |-> cell_count(vs, x_bins, z_bins, i, j)]]

\* Lines 350-368.
Density ==
    /\ pc = "density"
    /\ \E nx \in arange_lengths(room.left_x, room.right_x + grid_size, grid_size),
          nz \in arange_lengths(room.front_z, room.back_z + grid_size, grid_size) :
           xz_density_map' = density_map(vertices,
                                         arange(room.left_x, nx, grid_size),
                                         arange(room.front_z, nz, grid_size))
    /\ pc' = "slices"
    /\ UNCHANGED <<file, err, failed_at, vertices, room, regions, measurements,
                   horizontal_slices, indices, written>>

(***************************************************************************)
(* main: the horizontal slices (高さ別スライス).                            *)
(***************************************************************************)
\* slice_heights = [0.5, 1.0, 1.5], with the key f"{h}m_from_floor" of each.
slice_heights ==
    << [h |-> Mm(500),  key |-> "0.5m_from_floor"],
       [h |-> Mm(1000), key |-> "1.0m_from_floor"],
       [h |-> Mm(1500), key |-> "1.5m_from_floor"] >>

slice_mask(v, f, h) ==
    /\ v[2] > (f.floor_y + h) - Mm(50)
    /\ v[2] < (f.floor_y + h) + Mm(50)

slice_verts(vs, f, h) == SelectSeq(vs, LAMBDA v : slice_mask(v, f, h))

max(a, b) == IF a >= b THEN a ELSE b

min(a, b) == IF a <= b THEN a ELSE b

\* max(1, len(slice_verts) // 50)
slice_step(n) == max(1, n \div 50)

\* vs[::step]
strided(vs, step) ==
    [k \in 1..((Len(vs) + step - 1) \div step) |-> vs[(k - 1) * step + 1]]

slice_entry(sv) ==
    [vertex_count  |-> Len(sv),
     x_range_m     |-> <<axis_min(sv, 1), axis_max(sv, 1)>>,
     z_range_m     |-> <<axis_min(sv, 3), axis_max(sv, 3)>>,
     sample_points |-> LET pts == strided(sv, slice_step(Len(sv)))
                       IN  [k \in 1..Len(pts) |-> [x_m |-> pts[k][1], z_m |-> pts[k][3]]]]

RECURSIVE slices_from(_, _, _, _)
slices_from(vs, f, k, d) ==
    IF k > Len(slice_heights) THEN d
    ELSE LET sv == slice_verts(vs, f, slice_heights[k].h)
         IN  slices_from(vs, f, k + 1,
                         put_if(Len(sv) > 0, d, slice_heights[k].key, slice_entry(sv)))

Slices ==
    /\ pc = "slices"
    /\ horizontal_slices' = slices_from(vertices, room, 1, NoKeys)
    /\ pc' = "samples"
    /\ UNCHANGED <<file, err, failed_at, vertices, room, regions, measurements,
                   xz_density_map, indices, written>>

(***************************************************************************)
(* main: the vertex samples of the regions (各領域の頂点サンプル).          *)
(***************************************************************************)
\* The keys of region_masks.
region_masks == {"left_shelf", "right_shelf", "left_speaker", "right_speaker",
                 "left_rack", "right_rack", "sofa_estimated", "floor", "ceiling"}

\* The mask the sampling loop uses for a region: the stored mask, or the
\* wall masks written out again at lines 428 and 430.
sample_mask(name, v, f) ==
    IF name \in region_masks THEN region_mask(name, v, f, Cfg)
    ELSE IF name = "front_wall_area" THEN v[3] < f.front_z + Mm(500)
    ELSE v[3] > f.back_z - Mm(500)

sampled(name) == name \in region_masks \cup {"front_wall_area", "back_wall_area"}

\* A mutant of linspace: endpoint=False, so the last index is not stop.
linspace_open(stop, num) == [k \in 1..num |-> ((k - 1) * stop) \div num]

\* np.linspace(0, stop, num, dtype=int): num evenly spaced values from 0 to
\* stop, the last one stop itself, each truncated to an integer.
linspace(stop, num) ==
    [k \in 1..num |-> IF num = 1 THEN 0
                      ELSE IF k = num THEN stop
                      ELSE ((k - 1) * stop) \div (num - 1)]

\* min(30, len(region_verts))
sample_count(n) == min(30, n)

region_indices(name, vs, f) ==
    LET region_verts == SelectSeq(vs, LAMBDA v : sample_mask(name, v, f))
    IN  linspace(Len(region_verts) - 1, sample_count(Len(region_verts)))

sample_vertices(name, vs, f) ==
    LET region_verts == SelectSeq(vs, LAMBDA v : sample_mask(name, v, f))
        idx == region_indices(name, vs, f)
    IN  [k \in 1..Len(idx) |-> [x_m |-> region_verts[idx[k] + 1][1],
                                y_m |-> region_verts[idx[k] + 1][2],
                                z_m |-> region_verts[idx[k] + 1][3]]]

gets_sample(region) == region.vertex_count > 0 /\ sampled(region.name)

\* A mutant of with_samples: the record is built anew around the sample.
with_samples_only(region, vs, f) ==
    [name |-> region.name, vertex_count |-> region.vertex_count,
     sample_vertices |-> sample_vertices(region.name, vs, f)]

\* region["sample_vertices"] = [...]
with_samples(region, vs, f) ==
    ("sample_vertices" :> sample_vertices(region.name, vs, f)) @@ region

Samples ==
    /\ pc = "samples"
    /\ regions' = [i \in 1..Len(regions) |->
                      IF gets_sample(regions[i])
                      THEN with_samples(regions[i], vertices, room)
                      ELSE regions[i]]
    /\ indices' = [name \in {regions[i].name :
                                 i \in {j \in 1..Len(regions) : gets_sample(regions[j])}} |->
                      region_indices(name, vertices, room)]
    /\ pc' = "write"
    /\ UNCHANGED <<file, err, failed_at, vertices, room, measurements,
                   xz_density_map, horizontal_slices, written>>

(***************************************************************************)
(* main: json.dump(result, f).                                             *)
(***************************************************************************)
Write ==
    /\ pc = "write"
    /\ written' = <<[room |-> room, regions |-> regions,
                     measurements |-> measurements,
                     detailed_data |->
                         [xz_density_map_10cm_grid |-> xz_density_map,
                          horizontal_slices |-> horizontal_slices]]>>
    /\ pc' = "done"
    /\ UNCHANGED <<file, err, failed_at, vertices, room, regions, measurements,
                   xz_density_map, horizontal_slices, indices>>

Next ==
    Load \/ Frame \/ Segment \/ Measure \/ Density \/ Slices \/ Samples \/ Write

Spec == Init /\ [][Next]_vars

SpecBulk == InitBulk /\ [][Next]_vars


(***************************************************************************)
(* The stages a run has passed.                                            *)
(***************************************************************************)
Framed ==
    pc \in {"segment", "measure", "density", "slices", "samples", "write", "done"}

Segmented == pc \in {"measure", "density", "slices", "samples", "write", "done"}

Measured == pc \in {"density", "slices", "samples", "write", "done"}

Sliced == pc \in {"samples", "write", "done"}

Sampled == pc \in {"write", "done"}

RegionOrder ==
    <<"front_wall_area", "back_wall_area", "left_shelf", "right_shelf",
      "left_speaker", "right_speaker", "left_rack", "right_rack",
      "sofa_estimated", "floor", "ceiling">>

RegionNames == {RegionOrder[i] : i \in 1..Len(RegionOrder)}

\* The rows of the cloud that satisfy the predicate of the named region.
Matched(name) ==
    {k \in 1..Len(vertices) : region_mask(name, vertices[k], room, Cfg)}

\* Some record of the regions list has this name and a positive count.
NonEmpty(name) ==
    \E i \in 1..Len(regions) : regions[i].name = name /\ regions[i].vertex_count > 0

\* t is d grid units truncated toward zero to whole millimetres.
Truncates(t, d) ==
    IF d >= 0 THEN t >= 0 /\ t * UnitsPerMm <= d /\ d < (t + 1) * UnitsPerMm
              ELSE t <= 0 /\ t * UnitsPerMm >= d /\ d > (t - 1) * UnitsPerMm

(***************************************************************************)
(* C1: once the measurements are derived, each key is in the map exactly   *)
(* when all its source regions have points: the six per-region keys with   *)
(* the region of the same name, listening_point with sofa_estimated, the   *)
(* two inter-speaker distances with both speakers, and                     *)
(* listening_point.from_speaker_center_mm with the sofa and both speakers; *)
(* the map holds no other key, and no run fails after the frame stage.     *)
(***************************************************************************)
C1_MeasurementKeys ==
    /\ pc = "failed" => failed_at \in {"load", "frame"}
    /\ Measured =>
        /\ err = "none"
        /\ \A name \in {"left_speaker", "right_speaker", "left_shelf",
                        "right_shelf", "left_rack", "right_rack"} :
               (name \in DOMAIN measurements) <=> NonEmpty(name)
        /\ ("listening_point" \in DOMAIN measurements) <=> NonEmpty("sofa_estimated")
        /\ \A key \in {"speaker_distance_mm", "speaker_center_distance_mm"} :
               (key \in DOMAIN measurements)
                   <=> (NonEmpty("left_speaker") /\ NonEmpty("right_speaker"))
        /\ ("listening_point" \in DOMAIN measurements
               /\ "from_speaker_center_mm" \in DOMAIN measurements["listening_point"])
               <=> (NonEmpty("sofa_estimated") /\ NonEmpty("left_speaker")
                       /\ NonEmpty("right_speaker"))
        /\ DOMAIN measurements \subseteq
               {"left_speaker", "right_speaker", "left_shelf", "right_shelf",
                "left_rack", "right_rack", "listening_point",
                "speaker_distance_mm", "speaker_center_distance_mm"}

\* A finished run with the sofa and both speakers measured and the shelves
\* and racks empty.
C1_Witness ==
    /\ pc = "done"
    /\ "listening_point" \in DOMAIN measurements
    /\ "from_speaker_center_mm" \in DOMAIN measurements["listening_point"]
    /\ "speaker_distance_mm" \in DOMAIN measurements
    /\ ~NonEmpty("left_shelf") /\ ~NonEmpty("right_rack")
    /\ "left_shelf" \notin DOMAIN measurements

(***************************************************************************)
(* C2: once the cloud is segmented, every one of the 11 regions has a      *)
(* record whose vertex_count is the number of rows satisfying the region's *)
(* predicate; with no such row the record has exactly the keys name and    *)
(* vertex_count; otherwise its bounds are the tight box of the matched     *)
(* rows and its size is the box's extent per axis truncated to whole       *)
(* millimetres.  No run fails in the segment stage.                        *)
(***************************************************************************)
C2_RegionStatistics ==
    /\ failed_at # "segment"
    /\ Segmented =>
        \A name \in RegionNames :
            \E i \in 1..Len(regions) :
                LET r == regions[i]
                    M == Matched(name)
                    tight(lo, hi, axis) ==
                        /\ \A k \in M : lo <= vertices[k][axis] /\ vertices[k][axis] <= hi
                        /\ \E k \in M : vertices[k][axis] = lo
                        /\ \E k \in M : vertices[k][axis] = hi
                IN  /\ r.name = name
                    /\ r.vertex_count = Cardinality(M)
                    /\ M = {} => DOMAIN r = {"name", "vertex_count"}
                    /\ M # {} =>
                        /\ {"centroid", "bounds", "size"} \subseteq DOMAIN r
                        /\ tight(r.bounds.x_min_m, r.bounds.x_max_m, 1)
                        /\ tight(r.bounds.y_min_m, r.bounds.y_max_m, 2)
                        /\ tight(r.bounds.z_min_m, r.bounds.z_max_m, 3)
                        /\ Truncates(r.size.x_mm, r.bounds.x_max_m - r.bounds.x_min_m)
                        /\ Truncates(r.size.y_mm, r.bounds.y_max_m - r.bounds.y_min_m)
                        /\ Truncates(r.size.z_mm, r.bounds.z_max_m - r.bounds.z_min_m)

\* A segmented cloud with an empty region, and a region of two rows whose
\* extent in x is not a whole number of millimetres.
C2_Witness ==
    /\ Segmented
    /\ \E i \in 1..Len(regions) : regions[i].vertex_count = 0
    /\ \E i \in 1..Len(regions) :
           /\ regions[i].vertex_count >= 2
           /\ (regions[i].bounds.x_max_m - regions[i].bounds.x_min_m) % UnitsPerMm # 0
           /\ regions[i].size.x_mm > 0

(***************************************************************************)
(* C3: once the cloud is segmented, the regions list has exactly 11        *)
(* records, named in the declared order, whichever regions are empty; the  *)
(* written document carries the same list.                                 *)
(***************************************************************************)
C3_RegionOrder ==
    /\ Segmented =>
        /\ Len(regions) = 11
        /\ \A i \in 1..11 : regions[i].name = RegionOrder[i]
    /\ written # <<>> =>
        /\ Len(written[1].regions) = 11
        /\ \A i \in 1..11 : written[1].regions[i].name = RegionOrder[i]

\* A written document in which seven of the regions are empty.
C3_Witness ==
    /\ written # <<>>
    /\ Cardinality({i \in 1..Len(written[1].regions) :
                       written[1].regions[i].vertex_count = 0}) >= 7

(***************************************************************************)
(* C6: every run that passed the frame stage had a non-empty cloud, and    *)
(* its frame values are the minimum and maximum of the cloud per axis, so  *)
(* floor_y <= ceiling_y, front_z <= back_z, left_x <= right_x; the         *)
(* dimensions are the differences truncated to whole millimetres, none     *)
(* negative.                                                               *)
(***************************************************************************)
C6_RoomFrame ==
    /\ Framed => room.computed
    /\ room.computed =>
        LET rows == 1..Len(vertices)
            least(m, axis) == /\ \A k \in rows : m <= vertices[k][axis]
                              /\ \E k \in rows : m = vertices[k][axis]
            most(m, axis)  == /\ \A k \in rows : m >= vertices[k][axis]
                              /\ \E k \in rows : m = vertices[k][axis]
        IN  /\ Len(vertices) > 0
            /\ least(room.floor_y, 2) /\ most(room.ceiling_y, 2)
            /\ least(room.front_z, 3) /\ most(room.back_z, 3)
            /\ least(room.left_x, 1)  /\ most(room.right_x, 1)
            /\ room.floor_y <= room.ceiling_y
            /\ room.front_z <= room.back_z
            /\ room.left_x <= room.right_x
            /\ Truncates(room.dimensions_mm.width_x, room.right_x - room.left_x)
            /\ Truncates(room.dimensions_mm.height_y, room.ceiling_y - room.floor_y)
            /\ Truncates(room.dimensions_mm.depth_z, room.back_z - room.front_z)
            /\ room.dimensions_mm.width_x >= 0
            /\ room.dimensions_mm.height_y >= 0
            /\ room.dimensions_mm.depth_z >= 0

\* A frame of a cloud whose height is not a whole number of millimetres
\* and whose width is positive.
C6_Witness ==
    /\ room.computed
    /\ (room.ceiling_y - room.floor_y) % UnitsPerMm # 0
    /\ room.left_x < room.right_x
    /\ room.dimensions_mm.height_y > 0

(***************************************************************************)
(* C4 (as amended): when the file has no vertex line, the run never gets   *)
(* past the frame stage: no frame value is computed, no document is        *)
(* written, and the run ends with the IndexError that vertices[:, 1]       *)
(* raises on the one-dimensional empty array, in the frame stage.          *)
(***************************************************************************)
NoVertexLine == \A k \in 1..Len(file) : file[k].marker # "v"

EmptyInputAborts(kind) ==
    NoVertexLine =>
        /\ pc \in {"load", "frame", "failed"}
        /\ ~room.computed
        /\ written = <<>>
        /\ pc = "failed" => err = kind /\ failed_at = "frame"
        /\ pc # "failed" => err = "none"

WellFormed(line) ==
    /\ line.marker = "v"
    /\ Len(line.fields) >= 3
    /\ \A k \in 1..3 : line.fields[k].num

WellFormedRows ==
    LET lines == SelectSeq(file, WellFormed)
    IN  [k \in 1..Len(lines) |->
            <<lines[k].fields[1].val, lines[k].fields[2].val, lines[k].fields[3].val>>]

\* C5 as stated: the loader never raises and returns the well-formed rows;
\* the run goes on when there is one.
C5_LenientParse ==
    /\ failed_at # "load"
    /\ pc # "load" => vertices = WellFormedRows
    /\ Len(WellFormedRows) > 0 => pc # "failed"

(***************************************************************************)
(* C7.  The margins are the literals of the region predicates that are     *)
(* added to or subtracted from an anchor.  As amended: raising one margin, *)
(* all else fixed, never lowers a region's vertex_count, except for the    *)
(* three margins that move a bound inward as they grow (the racks'         *)
(* baffle_z - 0.02 and ceiling_y - 0.3, the sofa's floor_y + 0.2): raising *)
(* one of those never raises the count.                                    *)
(***************************************************************************)
Margins ==
    {"front_depth", "back_depth", "shelf_z", "shelf_x_near", "shelf_x_far",
     "spk_z_lo", "spk_z_hi", "spk_x_lo", "spk_x_hi", "spk_y_lo", "spk_y_hi",
     "rack_z", "rack_x_near", "rack_x_far", "rack_y_top",
     "sofa_y_lo", "sofa_y_hi", "floor_band", "ceiling_band"}

InwardMargins == {"rack_z", "rack_y_top", "sofa_y_lo"}

\* The amounts a margin is raised by.
Raises == {1, Mm(20), Mm(200)}

Raised(key, d) == [Cfg EXCEPT ![key] = @ + d]

CountWith(name, m) ==
    Cardinality({k \in 1..Len(vertices) : region_mask(name, vertices[k], room, m)})

CountOf(name) ==
    regions[CHOOSE i \in 1..Len(regions) : regions[i].name = name].vertex_count

\* C7 (as amended): raising a margin never lowers a count, and raising an
\* inward margin never raises one.
C7_MarginMonotone ==
    pc = "measure" =>
        \A name \in RegionNames : \A d \in Raises :
            /\ \A key \in Margins \ InwardMargins :
                   CountWith(name, Raised(key, d)) >= CountOf(name)
            /\ \A key \in InwardMargins :
                   CountWith(name, Raised(key, d)) <= CountOf(name)

\* C7 as stated: raising any margin never lowers the count.
C7_EveryMarginWidens ==
    pc = "measure" =>
        \A name \in RegionNames : \A d \in Raises : \A key \in Margins :
            CountWith(name, Raised(key, d)) >= CountOf(name)

\* A cloud in which raising the front wall's depth gains front_wall_area a
\* point and raising the racks' baffle clearance loses the left rack one.
C7_Witness ==
    /\ pc = "measure"
    /\ \E d \in Raises :
           CountWith("front_wall_area", Raised("front_depth", d))
               > CountOf("front_wall_area")
    /\ \E d \in Raises :
           CountWith("left_rack", Raised("rack_z", d)) < CountOf("left_rack")

(***************************************************************************)
(* C8 (as amended): when both speakers have points, speaker_distance_mm is *)
(* the absolute value of the right speaker's lower x bound minus the left  *)
(* speaker's upper x bound, truncated to whole millimetres.                *)
(***************************************************************************)
LeftSpeakerXMax ==
    CHOOSE x \in {vertices[k][1] : k \in Matched("left_speaker")} :
        \A k \in Matched("left_speaker") : vertices[k][1] <= x

RightSpeakerXMin ==
    CHOOSE x \in {vertices[k][1] : k \in Matched("right_speaker")} :
        \A k \in Matched("right_speaker") : vertices[k][1] >= x

BothSpeakersMatched ==
    Matched("left_speaker") # {} /\ Matched("right_speaker") # {}

InBand(h) ==
    {k \in 1..Len(vertices) :
        /\ vertices[k][2] > room.floor_y + h - Mm(50)
        /\ vertices[k][2] < room.floor_y + h + Mm(50)}

SliceEntries(cap) ==
    Sliced =>
        \A s \in {<<Mm(500), "0.5m_from_floor">>, <<Mm(1000), "1.0m_from_floor">>,
                  <<Mm(1500), "1.5m_from_floor">>} :
            /\ (s[2] \in DOMAIN horizontal_slices) <=> (InBand(s[1]) # {})
            /\ InBand(s[1]) # {} =>
                /\ horizontal_slices[s[2]].vertex_count = Cardinality(InBand(s[1]))
                /\ Len(horizontal_slices[s[2]].sample_points) <= cap

\* C9 as stated: entry iff the band has rows, the count exact, at most 50
\* sample points.
C9_SliceSampleCap == SliceEntries(50)

(***************************************************************************)
(* C10: once the regions are sampled, a region of n > 0 points carries     *)
(* sample_vertices of exactly min(30, n) entries; they are the members of  *)
(* the region (the rows its predicate selects, in file order) at positions *)
(* that never decrease, the first at the first member and, when n > 1, the *)
(* last at the last member.  A region without points carries none.         *)
(***************************************************************************)
Members(name) == SelectSeq(vertices, LAMBDA v : region_mask(name, v, room, Cfg))

\* C10: min(30, n) samples, members of the region at non-decreasing
\* positions from the first to the last; none for an empty region.
C10_RegionSamples ==
    Sampled =>
        \A i \in 1..Len(regions) :
            LET r == regions[i]
                n == r.vertex_count
                want == IF n < 30 THEN n ELSE 30
            IN  IF n = 0
                THEN "sample_vertices" \notin DOMAIN r /\ r.name \notin DOMAIN indices
                ELSE /\ "sample_vertices" \in DOMAIN r
                     /\ r.name \in DOMAIN indices
                     /\ LET sv  == r.sample_vertices
                            idx == indices[r.name]
                            mem == Members(r.name)
                        IN  /\ Len(mem) = n
                            /\ Len(sv) = want
                            /\ Len(idx) = want
                            /\ idx[1] = 0
                            /\ n > 1 => idx[want] = n - 1
                            /\ \A k \in 1..want : 0 <= idx[k] /\ idx[k] <= n - 1
                            /\ \A k \in 1..(want - 1) : idx[k] <= idx[k + 1]
                            /\ \A k \in 1..want :
                                   sv[k] = [x_m |-> mem[idx[k] + 1][1],
                                            y_m |-> mem[idx[k] + 1][2],
                                            z_m |-> mem[idx[k] + 1][3]]

\* A sampled run with a region of more than 30 points of two kinds, a
\* region of fewer than 30, and an empty one.
C10_Witness ==
    /\ Sampled
    /\ \E i \in 1..Len(regions) :
           /\ regions[i].vertex_count > 30
           /\ Len(regions[i].sample_vertices) = 30
           /\ regions[i].sample_vertices[1] # regions[i].sample_vertices[30]
    /\ \E i \in 1..Len(regions) :
           regions[i].vertex_count > 1 /\ regions[i].vertex_count < 30
    /\ \E i \in 1..Len(regions) : regions[i].vertex_count = 0

(***************************************************************************)
(* C11: every step of a run moves to the next stage of load, frame,        *)
(* segment, measure and then the stages that assemble the document         *)
(* (density, slices, samples, write), or ends the run with an error.  The  *)
(* six frame values are set once, in the frame stage, while no region      *)
(* record exists; the region records are made in the segment stage from a  *)
(* computed frame; the measurements are set in the measure stage only,     *)
(* with all 11 records present; and from the measure stage on every step   *)
(* leaves the six frame values and the name, vertex_count, centroid,       *)
(* bounds and size of every region record as they are.                     *)
(***************************************************************************)
StageSuccession ==
    {<<"load", "frame">>, <<"frame", "segment">>, <<"segment", "measure">>,
     <<"measure", "density">>, <<"density", "slices">>, <<"slices", "samples">>,
     <<"samples", "write">>, <<"write", "done">>,
     <<"load", "failed">>, <<"frame", "failed">>}

FrameValues(rm) ==
    IF rm.computed
    THEN <<rm.floor_y, rm.ceiling_y, rm.front_z, rm.back_z, rm.left_x, rm.right_x>>
    ELSE <<>>

\* The statistics of a region record: what analyze_region put in it.
Statistics(r) ==
    [k \in DOMAIN r \cap {"name", "vertex_count", "centroid", "bounds", "size"} |-> r[k]]

C11_Step ==
    /\ <<pc, pc'>> \in StageSuccession
    /\ room' # room =>
           pc = "frame" /\ ~room.computed /\ room'.computed /\ regions = <<>>
    /\ (pc = "segment" \/ Len(regions') # Len(regions)) =>
           /\ pc = "segment" /\ room.computed /\ room' = room
           /\ regions = <<>> /\ Len(regions') = 11
           /\ measurements = <<>>
    /\ measurements' # measurements =>
           pc = "measure" /\ Len(regions) = 11
    /\ Segmented =>
           /\ FrameValues(room') = FrameValues(room)
           /\ Len(regions') = Len(regions)
           /\ \A i \in 1..Len(regions) :
                  Statistics(regions'[i]) = Statistics(regions[i])

\* C11: the stages run in order, the frame is set once before the regions,
\* the measurements after all 11 records, and the statistics and the frame
\* stay as they are from the measure stage on.
C11_StageOrder == [][C11_Step]_vars

\* A finished run whose measurements are not empty and whose region records
\* were given samples after the measurements were derived.
C11_Witness ==
    /\ pc = "done"
    /\ DOMAIN measurements # {}
    /\ \E i \in 1..Len(regions) :
           /\ "sample_vertices" \in DOMAIN regions[i]
           /\ {"centroid", "bounds", "size"} \subseteq DOMAIN regions[i]
    /\ written[1].room = room
    /\ xz_density_map # <<>>

(***************************************************************************)
(* C12 as stated: once the density map is built, every row of the cloud    *)
(* lies in exactly one emitted cell, and the counts of the emitted cells   *)
(* add up to total_vertices.                                               *)
(***************************************************************************)
DensityBuilt == pc \in {"slices", "samples", "write", "done"}

RECURSIVE CountSum(_, _)
CountSum(entries, n) ==
    IF n = 0 THEN 0 ELSE entries[n].count + CountSum(entries, n - 1)

\* The row lies in the cell of this entry, given by its centre.
InCellOf(v, entry) ==
    /\ entry.x_m - grid_size \div 2 <= v[1] /\ v[1] < entry.x_m + grid_size \div 2
    /\ entry.z_m - grid_size \div 2 <= v[3] /\ v[3] < entry.z_m + grid_size \div 2

\* C12 as stated: the emitted cells count every row exactly once, the rows
\* on the right wall and on the back wall included.
C12_DensityCoversCloud ==
    DensityBuilt =>
        /\ CountSum(xz_density_map, Len(xz_density_map)) = room.total_vertices
        /\ \A k \in 1..Len(vertices) :
               Cardinality({n \in 1..Len(xz_density_map) :
                               InCellOf(vertices[k], xz_density_map[n])}) = 1

(***************************************************************************)
(* C13: once a cloud is segmented, the rows at the least z, the greatest   *)
(* z, the least y and the greatest y satisfy the predicates of             *)
(* front_wall_area, back_wall_area, floor and ceiling, so each of these    *)
(* four records has vertex_count >= 1 and carries the full statistics.     *)
(***************************************************************************)
WallRegions ==
    {[name |-> "front_wall_area", axis |-> 3, wall |-> room.front_z],
     [name |-> "back_wall_area",  axis |-> 3, wall |-> room.back_z],
     [name |-> "floor",           axis |-> 2, wall |-> room.floor_y],
     [name |-> "ceiling",         axis |-> 2, wall |-> room.ceiling_y]}

\* C13: the four wall regions are never zero-count stubs.
C13_WallRegionsNonEmpty ==
    Segmented =>
        /\ Len(vertices) > 0
        /\ \A w \in WallRegions :
               /\ \E k \in 1..Len(vertices) : vertices[k][w.axis] = w.wall
               /\ \A k \in 1..Len(vertices) :
                      vertices[k][w.axis] = w.wall => k \in Matched(w.name)
               /\ \E i \in 1..Len(regions) :
                      /\ regions[i].name = w.name
                      /\ regions[i].vertex_count >= 1
                      /\ {"centroid", "bounds", "size"} \subseteq DOMAIN regions[i]

\* A segmented cloud in which each of the four wall regions holds exactly
\* one row and another row lies in none of them.
C13_Witness ==
    /\ Segmented
    /\ \A w \in WallRegions : Cardinality(Matched(w.name)) = 1
    /\ \E k \in 1..Len(vertices) : \A w \in WallRegions : k \notin Matched(w.name)

====
